---- MODULE Spec2Model ----
(***************************************************************************)
(* A model of the meeting assistant: the record store (database.py), the   *)
(* summarizer's chunking, requests and response parsing (summarizer.py),   *)
(* the lazily loaded speech model (transcriber.py) and the user interface: *)
(* processing one audio file, the upload tab and the sidebar (app.py).     *)
(*                                                                         *)
(* Representation.  A Python str is a sequence of symbols.  A symbol is a  *)
(* one-character string, or an atom standing for a fixed run of characters *)
(* that the code treats as a unit (a code fence, "json", "import", ...).  *)
(* A value of type Optional[T] is a set with at most one element: {} is    *)
(* None and {x} is x.                                                      *)
(***************************************************************************)
EXTENDS Integers, Sequences, FiniteSets, TLC

VARIABLES
    rows,        \* table meetings: id -> stored row
    seq,         \* sqlite_sequence of the AUTOINCREMENT key: largest id ever used
    assigned,    \* history: every id an INSERT has been given so far
    meeting,     \* the caller's in-memory Meeting object (Optional)
    last,        \* the last call made on the store (or directly on the Transcriber or
                 \* the Summarizer), with what it returned
    wrote,       \* the last call that wrote to the table: its kind and the id it named
    reply,       \* the content of the chat completion the summarizer receives (Optional)
    parsed,      \* what extract_key_points / extract_action_items returned for it
    pc,          \* where _process_audio stands: the call it is about to make
    job,         \* the locals of the running (or last) _process_audio
    status,      \* the label of st.status, as the user sees it
    current_meeting, \* st.session_state.current_meeting
    _model,      \* Transcriber._model of the one cached Transcriber (Optional handle)
    loads,       \* how many times whisper.load_model has returned a model
    files        \* the audio files on disk under uploads/: their paths

storeVars == <<rows, seq>>
callerVars == <<meeting, last, wrote>>
parseVars == <<reply, parsed>>
appVars == <<pc, job, status, current_meeting, files>>
engineVars == <<_model, loads>>
vars ==
    <<rows, seq, assigned, meeting, last, wrote, reply, parsed, pc, job, status,
      current_meeting, _model, loads, files>>

----------------------------------------------------------------------------
(* Symbols and Python's str methods                                        *)

QUOTE == "\""
BACKSLASH == "\\"
NL == "\n"
SP == " "
TAB == "\t"
CR == "\r"
FENCE == "fence"      \* the three backquotes of a Markdown code fence
BULLET == "bullet"

None == {}
Some(x) == {x}

Min(S) == CHOOSE x \in S : \A y \in S : x <= y
Max(S) == CHOOSE x \in S : \A y \in S : x >= y

\* str.strip() with no argument removes these
PyWhitespace == {SP, NL, TAB, CR}

\* s.lstrip(chars)
LStripChars(s, chars) ==
    LET keep == {i \in 1..Len(s) : s[i] \notin chars}
    IN  IF keep = {} THEN <<>> ELSE SubSeq(s, Min(keep), Len(s))

\* s.strip()
Strip(s) ==
    LET keep == {i \in 1..Len(s) : s[i] \notin PyWhitespace}
    IN  IF keep = {} THEN <<>> ELSE SubSeq(s, Min(keep), Max(keep))

\* s.find(c) and s.rfind(c) for a one-symbol c: 0-based, -1 when absent
Find(s, c) ==
    LET at == {i \in 1..Len(s) : s[i] = c}
    IN  IF at = {} THEN -1 ELSE Min(at) - 1

RFind(s, c) ==
    LET at == {i \in 1..Len(s) : s[i] = c}
    IN  IF at = {} THEN -1 ELSE Max(at) - 1

\* s[start:end] for 0 <= start <= end <= len(s)
Slice(s, start, end) == SubSeq(s, start + 1, end)

\* s.startswith(prefix)
StartsWith(s, prefix) ==
    /\ Len(prefix) <= Len(s)
    /\ SubSeq(s, 1, Len(prefix)) = prefix

\* s.replace(pat, ""): the non-overlapping occurrences, left to right
RECURSIVE Remove(_, _)
Remove(s, pat) ==
    IF s = <<>> THEN <<>>
    ELSE IF StartsWith(s, pat) THEN Remove(SubSeq(s, Len(pat) + 1, Len(s)), pat)
    ELSE <<Head(s)>> \o Remove(Tail(s), pat)

\* s.split("\n"): the pieces between newlines, empty pieces kept
RECURSIVE SplitLines(_)
SplitLines(s) ==
    LET at == {i \in 1..Len(s) : s[i] = NL}
    IN  IF at = {} THEN <<s>>
        ELSE <<SubSeq(s, 1, Min(at) - 1)>> \o SplitLines(SubSeq(s, Min(at) + 1, Len(s)))

\* sep.join(parts[lo..hi]), by halves
RECURSIVE JoinBetween(_, _, _, _)
JoinBetween(sep, parts, lo, hi) ==
    IF lo > hi THEN <<>>
    ELSE IF lo = hi THEN parts[lo]
    ELSE LET mid == (lo + hi) \div 2
         IN  JoinBetween(sep, parts, lo, mid) \o sep \o JoinBetween(sep, parts, mid + 1, hi)

\* sep.join(parts)
Join(sep, parts) == JoinBetween(sep, parts, 1, Len(parts))

\* the words of s[lo..hi], by halves: a word that runs across the middle is
\* the last word of the left half followed by the first of the right half
RECURSIVE WordsBetween(_, _, _)
WordsBetween(s, lo, hi) ==
    IF lo > hi THEN <<>>
    ELSE IF lo = hi THEN (IF s[lo] \in PyWhitespace THEN <<>> ELSE << <<s[lo]>> >>)
    ELSE LET mid == (lo + hi) \div 2
             l == WordsBetween(s, lo, mid)
             r == WordsBetween(s, mid + 1, hi)
         IN  IF s[mid] \notin PyWhitespace /\ s[mid + 1] \notin PyWhitespace
             THEN SubSeq(l, 1, Len(l) - 1) \o <<l[Len(l)] \o r[1]>> \o Tail(r)
             ELSE l \o r

\* s.split(): the maximal runs of symbols that are not whitespace
Split(s) == WordsBetween(s, 1, Len(s))

----------------------------------------------------------------------------
(* json.dumps and json.loads                                               *)

\* A decoded JSON value
JStr(s) == [t |-> "str", s |-> s, items |-> <<>>]
JNum(s) == [t |-> "num", s |-> s, items |-> <<>>]
JLit(s) == [t |-> "lit", s |-> s, items |-> <<>>]
JList(items) == [t |-> "list", s |-> <<>>, items |-> items]

\* The outcome of a decoding step: the value and the 1-based index after it,
\* or JSONDecodeError
Ok(v, next) == [ok |-> TRUE, val |-> v, next |-> next]
Fail == [ok |-> FALSE, val |-> JLit(<<>>), next |-> 0]

JsonWhitespace == {SP, NL, TAB, CR}
Digits == {"0", "1", "2", "3", "4", "5", "6", "7", "8", "9"}
JsonLiterals == {"null", "true", "false", "NaN", "Infinity"}

\* json.decoder.BACKSLASH: the character after a backslash, decoded
Unescape ==
    [c \in {QUOTE, BACKSLASH, "/", "n", "t", "r", "u2022"} |->
        CASE c = "n" -> NL
          [] c = "t" -> TAB
          [] c = "r" -> CR
          [] c = "u2022" -> BULLET
          [] OTHER -> c]

\* json.encoder.py_encode_basestring_ascii, one symbol
EscapeSymbol(c) ==
    CASE c = QUOTE -> <<BACKSLASH, QUOTE>>
      [] c = BACKSLASH -> <<BACKSLASH, BACKSLASH>>
      [] c = NL -> <<BACKSLASH, "n">>
      [] c = TAB -> <<BACKSLASH, "t">>
      [] c = CR -> <<BACKSLASH, "r">>
      [] c = BULLET -> <<BACKSLASH, "u2022">>
      [] OTHER -> <<c>>

RECURSIVE EscapeAll(_)
EscapeAll(s) ==
    IF s = <<>> THEN <<>> ELSE EscapeSymbol(Head(s)) \o EscapeAll(Tail(s))

\* json.dumps of one str, had it written the symbols between the quotes as they are
json_dumps_str_raw(s) == <<QUOTE>> \o s \o <<QUOTE>>

\* json.dumps of one str
json_dumps_str(s) == <<QUOTE>> \o EscapeAll(s) \o <<QUOTE>>

\* json.dumps of a list of str, with the default separators
json_dumps(L) ==
    <<"[">> \o Join(<<",", SP>>, [i \in 1..Len(L) |-> json_dumps_str(L[i])]) \o <<"]">>

RECURSIVE SkipWs(_, _)
SkipWs(s, i) ==
    IF i <= Len(s) /\ s[i] \in JsonWhitespace THEN SkipWs(s, i + 1) ELSE i

\* json.decoder.py_scanstring (strict): s[i] is the symbol after the opening quote
RECURSIVE ScanString(_, _, _)
ScanString(s, i, acc) ==
    IF i > Len(s) THEN Fail
    ELSE IF s[i] = QUOTE THEN Ok(JStr(acc), i + 1)
    ELSE IF s[i] = BACKSLASH THEN
        IF i + 1 <= Len(s) /\ s[i + 1] \in DOMAIN Unescape
        THEN ScanString(s, i + 2, Append(acc, Unescape[s[i + 1]]))
        ELSE Fail
    ELSE IF s[i] \in {NL, TAB, CR} THEN Fail
    ELSE ScanString(s, i + 1, Append(acc, s[i]))

RECURSIVE DigitsEnd(_, _)
DigitsEnd(s, i) ==
    IF i <= Len(s) /\ s[i] \in Digits THEN DigitsEnd(s, i + 1) ELSE i

\* json.scanner.NUMBER_RE: -?(0|[1-9][0-9]*)([.][0-9]+)?
ScanNumber(s, i) ==
    LET j == IF s[i] = "-" THEN i + 1 ELSE i
        k == IF j <= Len(s) /\ s[j] = "0" THEN j + 1 ELSE DigitsEnd(s, j)
        f == IF k <= Len(s) /\ s[k] = "." /\ DigitsEnd(s, k + 1) > k + 1
             THEN DigitsEnd(s, k + 1) ELSE k
    IN  IF k = j THEN Fail ELSE Ok(JNum(SubSeq(s, i, f - 1)), f)

\* json.scanner.py_make_scanner._scan_once and json.decoder.JSONArray
RECURSIVE ScanOnce(_, _), ScanItems(_, _, _)
ScanOnce(s, i) ==
    IF i > Len(s) THEN Fail
    ELSE IF s[i] = QUOTE THEN ScanString(s, i + 1, <<>>)
    ELSE IF s[i] = "[" THEN
        LET j == SkipWs(s, i + 1)
        IN  IF j <= Len(s) /\ s[j] = "]" THEN Ok(JList(<<>>), j + 1)
            ELSE ScanItems(s, j, <<>>)
    ELSE IF s[i] \in JsonLiterals THEN Ok(JLit(<<s[i]>>), i + 1)
    ELSE IF s[i] = "-" /\ i + 1 <= Len(s) /\ s[i + 1] = "Infinity"
        THEN Ok(JLit(<<"-", "Infinity">>), i + 2)
    ELSE IF s[i] \in Digits \cup {"-"} THEN ScanNumber(s, i)
    ELSE Fail

ScanItems(s, i, acc) ==
    LET r == ScanOnce(s, i)
    IN  IF ~r.ok THEN Fail
        ELSE LET j == SkipWs(s, r.next)
             IN  IF j > Len(s) THEN Fail
                 ELSE IF s[j] = "]" THEN Ok(JList(Append(acc, r.val)), j + 1)
                 ELSE IF s[j] = "," THEN ScanItems(s, SkipWs(s, j + 1), Append(acc, r.val))
                 ELSE Fail

\* json.loads: one value, whitespace around it, nothing else
json_loads(s) ==
    LET r == ScanOnce(s, SkipWs(s, 1))
    IN  IF r.ok /\ SkipWs(s, r.next) = Len(s) + 1 THEN r ELSE Fail

\* pydantic's check of a list[str] field
IsListOfStr(v) ==
    /\ v.t = "list"
    /\ \A i \in 1..Len(v.items) : v.items[i].t = "str"

\* the Python list[str] a decoded value is, when IsListOfStr
AsListOfStr(v) == [i \in 1..Len(v.items) |-> v.items[i].s]

----------------------------------------------------------------------------
(* SQLite: text comparison, LIKE, the AUTOINCREMENT key                    *)

\* Code points of the symbols dates are written with ("%Y-%m-%d %H:%M")
CodePoint ==
    [c \in Digits \cup {SP, "-", ":"} |->
        CASE c = SP -> 32
          [] c = "-" -> 45
          [] c = "0" -> 48 [] c = "1" -> 49 [] c = "2" -> 50 [] c = "3" -> 51
          [] c = "4" -> 52 [] c = "5" -> 53 [] c = "6" -> 54 [] c = "7" -> 55
          [] c = "8" -> 56 [] c = "9" -> 57
          [] c = ":" -> 58]

\* a < b for TEXT under the BINARY collation: memcmp, then the shorter first
RECURSIVE TextLess(_, _)
TextLess(a, b) ==
    IF b = <<>> THEN FALSE
    ELSE IF a = <<>> THEN TRUE
    ELSE IF Head(a) = Head(b) THEN TextLess(Tail(a), Tail(b))
    ELSE CodePoint[Head(a)] < CodePoint[Head(b)]

UpperCase == <<"A", "B", "C", "D", "E", "F", "G", "H", "I", "J", "K", "L", "M",
               "N", "O", "P", "Q", "R", "S", "T", "U", "V", "W", "X", "Y", "Z">>
LowerCase == <<"a", "b", "c", "d", "e", "f", "g", "h", "i", "j", "k", "l", "m",
               "n", "o", "p", "q", "r", "s", "t", "u", "v", "w", "x", "y", "z">>

\* LIKE compares ASCII letters without regard to case
Fold(c) ==
    IF \E i \in 1..26 : UpperCase[i] = c
    THEN LowerCase[CHOOSE i \in 1..26 : UpperCase[i] = c]
    ELSE c

\* text LIKE pattern, no ESCAPE clause: % is any run of symbols, _ any one symbol
RECURSIVE Like(_, _)
Like(text, pattern) ==
    IF pattern = <<>> THEN text = <<>>
    ELSE IF Head(pattern) = "%"
        THEN Like(text, Tail(pattern)) \/ (text # <<>> /\ Like(Tail(text), pattern))
    ELSE IF text = <<>> THEN FALSE
    ELSE IF Head(pattern) = "_" THEN Like(Tail(text), Tail(pattern))
    ELSE Fold(Head(text)) = Fold(Head(pattern)) /\ Like(Tail(text), Tail(pattern))

\* the sequences that list every id of ids once
Orderings(ids) ==
    {p \in [1..Cardinality(ids) -> ids] :
        \A a, b \in 1..Cardinality(ids) : a # b => p[a] # p[b]}

\* ORDER BY date, had DESC been left out
OrderByDateAsc(table, ids) ==
    {p \in Orderings(ids) :
        \A k \in 1..(Len(p) - 1) : ~TextLess(table[p[k + 1]].date, table[p[k]].date)}

\* ORDER BY date DESC over the rows with these ids: any order in which no row
\* comes before one with a greater date (SQL leaves the order of equal dates open)
OrderByDateDesc(table, ids) ==
    {p \in Orderings(ids) :
        \A k \in 1..(Len(p) - 1) : ~TextLess(table[p[k]].date, table[p[k + 1]].date)}

\* INTEGER PRIMARY KEY without AUTOINCREMENT: one more than the largest id in the table
NextRowIdReusing(table, sequence) == Max({0} \cup DOMAIN table) + 1

\* the rowid an INSERT gets under AUTOINCREMENT: above every id ever used
NextRowId(table, sequence) == Max({sequence} \cup DOMAIN table) + 1

----------------------------------------------------------------------------
(* database.py                                                             *)

\* Meeting(...): a record not yet saved
Meeting(title, date, transcript, summary, key_points, action_items, audio_path) ==
    [id |-> None, title |-> title, date |-> date, transcript |-> transcript,
     summary |-> summary, key_points |-> key_points,
     action_items |-> action_items, audio_path |-> audio_path]

\* the column values, had summary and transcript been bound in each other's place
RowOfSwapped(m) ==
    [title |-> m.title, date |-> m.date, transcript |-> m.summary,
     summary |-> m.transcript, key_points |-> json_dumps(m.key_points),
     action_items |-> json_dumps(m.action_items), audio_path |-> m.audio_path]

\* the column values save_meeting binds, for INSERT and for UPDATE alike
RowOf(m) ==
    [title |-> m.title, date |-> m.date, transcript |-> m.transcript,
     summary |-> m.summary, key_points |-> json_dumps(m.key_points),
     action_items |-> json_dumps(m.action_items), audio_path |-> m.audio_path]

\* whether __row_to_meeting returns: both lists decode and pass validation
RowDecodes(row) ==
    /\ json_loads(row.key_points).ok
    /\ IsListOfStr(json_loads(row.key_points).val)
    /\ json_loads(row.action_items).ok
    /\ IsListOfStr(json_loads(row.action_items).val)

_row_to_meeting(id, row) ==
    [id |-> Some(id), title |-> row.title, date |-> row.date,
     transcript |-> row.transcript, summary |-> row.summary,
     key_points |-> AsListOfStr(json_loads(row.key_points).val),
     action_items |-> AsListOfStr(json_loads(row.action_items).val),
     audio_path |-> row.audio_path]

\* meeting.id = cursor.lastrowid or 0
LastRowIdOr0(lastrowid) == IF lastrowid = 0 THEN 0 ELSE lastrowid

\* INSERT INTO meetings (...) VALUES (...)
InsertRow(table, id, row) ==
    [i \in DOMAIN table \cup {id} |-> IF i = id THEN row ELSE table[i]]

\* an UPDATE that also gives the row the next id
UpdateRowRenumbered(table, id, row) ==
    IF id \in DOMAIN table
    THEN [i \in (DOMAIN table \ {id}) \cup {Max(DOMAIN table) + 1} |->
            IF i \in DOMAIN table \ {id} THEN table[i] ELSE row]
    ELSE table

\* UPDATE meetings SET ... WHERE id=?
UpdateRow(table, id, row) ==
    [i \in DOMAIN table |-> IF i = id THEN row ELSE table[i]]

\* DELETE FROM meetings, had the WHERE clause been left out
DeleteEveryRow(table, id) == [i \in {} |-> table[i]]

\* DELETE FROM meetings WHERE id = ?
DeleteRow(table, id) == [i \in DOMAIN table \ {id} |-> table[i]]

\* WHERE title LIKE ? OR transcript LIKE ? OR summary LIKE ?, each bound to %query%
SearchMatches(row, query) ==
    LET pattern == <<"%">> \o query \o <<"%">>
    IN  \/ Like(row.title, pattern)
        \/ Like(row.transcript, pattern)
        \/ Like(row.summary, pattern)

\* [self.__row_to_meeting(row) for row in rows]
RowsToMeetings(table, order) ==
    [k \in 1..Len(order) |-> _row_to_meeting(order[k], table[order[k]])]

\* what the caller saw of a store call
Call(op, path, id, q, ret, before, raised) ==
    [op |-> op, path |-> path, id |-> id, q |-> q, ret |-> ret,
     before |-> before, raised |-> raised]

NoRows == [i \in {} |-> 0]
NoCall == Call("none", "", 0, <<>>, None, NoRows, FALSE)

\* meeting = Meeting(...); MeetingDatabase.save_meeting(meeting): the INSERT path
SaveNewMeeting(m, maxId) ==
    LET id == NextRowId(rows, seq)
        stored == [m EXCEPT !.id = Some(LastRowIdOr0(id))]
    IN  /\ m.id = None
        /\ id <= maxId
        /\ rows' = InsertRow(rows, id, RowOf(m))
        /\ seq' = id
        /\ assigned' = assigned \cup {id}
        /\ meeting' = Some(stored)
        /\ last' = Call("save", "insert", 0, <<>>, stored.id, rows, FALSE)
        /\ wrote' = [kind |-> "insert", id |-> id]
        /\ UNCHANGED <<parseVars, appVars, engineVars>>

\* the caller assigns the fields of m to the Meeting it holds, whose id some
\* earlier save set, and calls save_meeting on it: the UPDATE path
SaveHeldMeeting(m) ==
    /\ \E held \in meeting : \E id \in held.id :
        LET edited == [m EXCEPT !.id = held.id]
        IN  /\ rows' = UpdateRow(rows, id, RowOf(edited))
            /\ meeting' = Some(edited)
            /\ last' = Call("save", "update", id, <<>>, edited.id, rows, FALSE)
            /\ wrote' = [kind |-> "update", id |-> id]
    /\ UNCHANGED <<seq, assigned, parseVars, appVars, engineVars>>

\* MeetingDatabase.get_meeting(meeting_id)
GetMeeting(id) ==
    /\ last' = IF id \notin DOMAIN rows
               THEN Call("get", "", id, <<>>, None, rows, FALSE)
               ELSE IF RowDecodes(rows[id])
               THEN Call("get", "", id, <<>>, Some(_row_to_meeting(id, rows[id])), rows, FALSE)
               ELSE Call("get", "", id, <<>>, None, rows, TRUE)
    /\ UNCHANGED <<rows, seq, assigned, meeting, wrote, parseVars, appVars, engineVars>>

\* MeetingDatabase.get_all_meetings()
GetAllMeetings ==
    /\ \E order \in OrderByDateDesc(rows, DOMAIN rows) :
        last' = IF \A i \in DOMAIN rows : RowDecodes(rows[i])
                THEN Call("get_all", "", 0, <<>>, RowsToMeetings(rows, order), rows, FALSE)
                ELSE Call("get_all", "", 0, <<>>, <<>>, rows, TRUE)
    /\ UNCHANGED <<rows, seq, assigned, meeting, wrote, parseVars, appVars, engineVars>>

\* MeetingDatabase.delete_meeting(meeting_id)
DeleteMeeting(id) ==
    /\ IF id \notin DOMAIN rows
       THEN /\ last' = Call("delete", "absent", id, <<>>, None, rows, FALSE)
            /\ UNCHANGED <<rows, wrote>>
       ELSE /\ rows' = DeleteRow(rows, id)
            /\ last' = Call("delete", "present", id, <<>>, Some(rows[id].audio_path), rows, FALSE)
            /\ wrote' = [kind |-> "delete", id |-> id]
    /\ UNCHANGED <<seq, assigned, meeting, parseVars, appVars, engineVars>>

\* MeetingDatabase.search_meetings(query)
SearchMeetings(query) ==
    /\ LET hits == {i \in DOMAIN rows : SearchMatches(rows[i], query)}
       IN  \E order \in OrderByDateDesc(rows, hits) :
            last' = IF \A i \in hits : RowDecodes(rows[i])
                    THEN Call("search", "", 0, query, RowsToMeetings(rows, order), rows, FALSE)
                    ELSE Call("search", "", 0, query, <<>>, rows, TRUE)
    /\ UNCHANGED <<rows, seq, assigned, meeting, wrote, parseVars, appVars, engineVars>>

\* MeetingDatabase(): the table is created empty; nothing has been called
StoreInit ==
    /\ rows = NoRows
    /\ seq = 0
    /\ assigned = {}
    /\ meeting = None
    /\ last = NoCall
    /\ wrote = [kind |-> "none", id |-> 0]

\* a caller of the store: any sequence of calls, with Meetings drawn from
\* inputs, queries from queries and no more than maxId rows ever inserted
StoreNext(inputs, queries, maxId) ==
    \/ \E m \in inputs : SaveNewMeeting(m, maxId)
    \/ \E m \in inputs : SaveHeldMeeting(m)
    \/ \E id \in 1..(maxId + 1) : GetMeeting(id)
    \/ GetAllMeetings
    \/ \E id \in 1..(maxId + 1) : DeleteMeeting(id)
    \/ \E q \in queries : SearchMeetings(q)

----------------------------------------------------------------------------
(* summarizer.py                                                           *)

DEFAULT_MAX_WORDS == 800

\* Summarizer._chat returns (response.choices[0].message.content or "").strip()
ChatText(content) ==
    IF content = None THEN <<>> ELSE Strip(CHOOSE s \in content : TRUE)

\* a chunking that cuts every max_words characters
_chunk_by_chars(text, max_words) ==
    [k \in 1..((Len(text) + max_words - 1) \div max_words) |->
        SubSeq(text, (k - 1) * max_words + 1, Min({k * max_words, Len(text)}))]

\* Summarizer._chunk_transcript(text, max_words)
_chunk_transcript(text, max_words) ==
    LET words == Split(text)
        n == Len(words)
    IN  [k \in 1..((n + max_words - 1) \div max_words) |->
            Join(<<SP>>, SubSeq(words, (k - 1) * max_words + 1, Min({k * max_words, n})))]

\* the prefixes by which the fallback drops a line as a code artifact
CodePrefixes ==
    {<<"import">>, <<"def", SP>>, <<"for", SP>>, <<"action_">>, <<"meeting_">>,
     <<"#">>, <<"json">>, <<"print">>}

\* the characters line.strip().lstrip(...) removes from the left
BulletChars == {BULLET, "-", "*", ".", SP, QUOTE} \cup Digits

\* the condition of the fallback's list comprehension
KeepLine(line) ==
    /\ Strip(line) # <<>>
    /\ Strip(line) \notin {<<"[">>, <<"]">>}
    /\ \A prefix \in CodePrefixes : ~StartsWith(Strip(line), prefix)

\* the except branch of _parse_json_list: one string per line kept
FallbackLines(response) ==
    LET kept == SelectSeq(SplitLines(response), KeepLine)
    IN  [i \in 1..Len(kept) |-> JStr(LStripChars(Strip(kept[i]), BulletChars))]

\* Summarizer._parse_json_list(response): whatever json.loads makes of the
\* cleaned text, or the fallback's list when json.loads raises JSONDecodeError
_parse_json_list(response) ==
    LET unfenced == Strip(Remove(Remove(Strip(response), <<FENCE, "json">>), <<FENCE>>))
        start == Find(unfenced, "[")
        end == RFind(unfenced, "]") + 1
        cleaned == IF start # -1 /\ end > start THEN Slice(unfenced, start, end) ELSE unfenced
        decoded == json_loads(cleaned)
    IN  IF decoded.ok THEN decoded.val ELSE JList(FallbackLines(response))

\* Summarizer.extract_key_points(transcript), the endpoint answering with reply
ExtractKeyPoints ==
    /\ parsed = None
    /\ parsed' = Some([by |-> "extract_key_points", val |-> _parse_json_list(ChatText(reply))])
    /\ UNCHANGED <<rows, seq, assigned, callerVars, reply, appVars, engineVars>>

\* Summarizer.extract_action_items(transcript), the endpoint answering with reply
ExtractActionItems ==
    /\ parsed = None
    /\ parsed' = Some([by |-> "extract_action_items", val |-> _parse_json_list(ChatText(reply))])
    /\ UNCHANGED <<rows, seq, assigned, callerVars, reply, appVars, engineVars>>

ParseNext == ExtractKeyPoints \/ ExtractActionItems

\* Summarizer._chunk_transcript(text, max_words), called directly, once
ChunkTranscript(text, max_words) ==
    /\ last = NoCall
    /\ last' = Call("_chunk_transcript", "", max_words, text,
                    Some(_chunk_transcript(text, max_words)), rows, FALSE)
    /\ UNCHANGED <<rows, seq, assigned, meeting, wrote, parseVars, appVars, engineVars>>

----------------------------------------------------------------------------
(* app.py: _process_audio, one external call per step                      *)

MIN_DURATION_TENTHS == 10      \* audio_info.duration < 1.0, in tenths of a second

\* the duration check left out
NeverTooShort(duration) == FALSE

\* if audio_info.duration < 1.0
TooShort(duration) == duration < MIN_DURATION_TENTHS

\* Transcriber.transcribe_file: "text": str(result.get("text", "")).strip()
TranscribedText(raw) == Strip(raw)

\* the check of the transcript left out
NeverNoSpeech(transcript) == FALSE

\* if not transcript.strip()
NoSpeech(transcript) == Strip(transcript) = <<>>

\* a caller that runs the failed call again
RetryPc(step) == step

\* where an exception raised by a call leaves _process_audio: it propagates,
\* the function is left and nothing runs it again
FailurePc(step) == "idle"

\* the statement after each call that returned
AfterStep(step) ==
    CASE step = "probe" -> "transcribe"
      [] step = "transcribe" -> "title"
      [] step = "title" -> "summary"
      [] step = "summary" -> "key_points"
      [] step = "key_points" -> "action_items"
      [] step = "action_items" -> "save"
      [] step = "save" -> "idle"

NotYet == [done |-> FALSE, raises |-> FALSE, value |-> 0]
Raised == [done |-> TRUE, raises |-> TRUE, value |-> 0]
Gave(v) == [done |-> TRUE, raises |-> FALSE, value |-> v]

\* the locals of _process_audio(audio_path) on entry, with the rows of the
\* store then, the calls made so far (requests), the call that raised (failed)
\* and, for each summary request, the text it sent and the text it returned (asked)
NewJob(audio_path, table) ==
    [audio_path |-> audio_path, probe |-> NotYet, heard |-> NotYet,
     transcript |-> <<>>, title |-> <<>>, summary |-> <<>>,
     key_points |-> JList(<<>>), action_items |-> JList(<<>>),
     chunks |-> <<>>, partial |-> <<>>, requests |-> <<>>, failed |-> "",
     asked |-> <<>>, before |-> table]

\* "Process Recording" / "Process Audio" pressed: the recorded or uploaded bytes
\* are written to path (an existing file is overwritten) and _process_audio(path)
\* is entered
StartProcessAudio(path, maxId) ==
    /\ pc = "idle"
    /\ NextRowId(rows, seq) <= maxId
    /\ pc' = "probe"
    /\ job' = NewJob(path, rows)
    /\ status' = "processing"
    /\ files' = files \cup {path}
    /\ UNCHANGED <<rows, seq, assigned, callerVars, parseVars, current_meeting, engineVars>>

\* sf.info(audio_path) inside try / except Exception: pass
StepProbe(outcome) ==
    /\ pc = "probe"
    /\ job' = [job EXCEPT !.probe = outcome]
    /\ IF ~outcome.raises /\ TooShort(outcome.value)
       THEN pc' = "idle" /\ status' = "too_short"
       ELSE pc' = AfterStep("probe") /\ UNCHANGED status
    /\ UNCHANGED <<rows, seq, assigned, callerVars, parseVars, current_meeting, engineVars, files>>

MaxLoads == 3        \* models ever loaded

\* the handle whisper.load_model returns
WHISPER == "whisper"

\* a property that loads on every access
AlwaysLoad(handle) == TRUE

\* Transcriber.model: if self._model is None
NeedsLoad(handle) == handle = None

\* Transcriber.model: self._model, and the number of models loaded, once the
\* property has returned
ModelAfter(handle) == IF NeedsLoad(handle) THEN Some(WHISPER) ELSE handle
LoadsAfter(handle, count) == IF NeedsLoad(handle) THEN count + 1 ELSE count

\* what a call of transcribe_file or transcribe_array does to the Transcriber:
\* a call that raises may have raised before self.model returned (sf.write or
\* whisper.load_model raised); otherwise self.model returned, the model loaded
\* if it was not
EngineCall(raises) ==
    \/ /\ raises
       /\ UNCHANGED <<_model, loads>>
    \/ /\ loads < MaxLoads
       /\ _model' = ModelAfter(_model)
       /\ loads' = LoadsAfter(_model, loads)

\* transcriber.transcribe_file(audio_path) and the check of its text
StepTranscribe(outcome) ==
    /\ pc = "transcribe"
    /\ IF outcome.raises
       THEN /\ job' = [job EXCEPT !.heard = outcome, !.requests = Append(@, "transcribe"),
                                  !.failed = "transcribe"]
            /\ pc' = FailurePc("transcribe")
            /\ status' = "error"
       ELSE LET transcript == TranscribedText(outcome.value)
            IN  /\ job' = [job EXCEPT !.heard = outcome, !.transcript = transcript,
                                      !.requests = Append(@, "transcribe")]
                /\ IF NoSpeech(transcript)
                   THEN pc' = "idle" /\ status' = "no_speech"
                   ELSE pc' = AfterStep("transcribe") /\ UNCHANGED status
    /\ EngineCall(outcome.raises)
    /\ UNCHANGED <<rows, seq, assigned, callerVars, parseVars, current_meeting, files>>

\* summarizer.generate_title(transcript); on return generate_summary chunks the transcript
StepTitle(outcome) ==
    /\ pc = "title"
    /\ IF outcome.raises
       THEN /\ job' = [job EXCEPT !.requests = Append(@, "title"), !.failed = "title"]
            /\ pc' = FailurePc("title")
            /\ status' = "error"
       ELSE /\ job' = [job EXCEPT !.requests = Append(@, "title"),
                                  !.title = ChatText(outcome.value),
                                  !.chunks = _chunk_transcript(job.transcript, DEFAULT_MAX_WORDS)]
            /\ pc' = AfterStep("title")
            /\ UNCHANGED status
    /\ UNCHANGED <<rows, seq, assigned, callerVars, parseVars, current_meeting, engineVars, files>>

\* the chunks sent last first
SummaryInputReversed(transcript, chunks, partial) ==
    IF Len(chunks) = 1 THEN transcript
    ELSE IF Len(partial) < Len(chunks) THEN chunks[Len(chunks) - Len(partial)]
    ELSE Join(<<NL, NL>>, partial)

\* the text the next request of generate_summary sends after "Meeting
\* transcript:\n\n": the transcript when there is one chunk; otherwise the
\* chunks one by one and then the partial summaries joined
SummaryInput(transcript, chunks, partial) ==
    IF Len(chunks) = 1 THEN transcript
    ELSE IF Len(partial) < Len(chunks) THEN chunks[Len(partial) + 1]
    ELSE Join(<<NL, NL>>, partial)

\* one request of summarizer.generate_summary: the only one when there is one
\* chunk; otherwise one per chunk, then one over the partial summaries joined
StepSummary(outcome) ==
    LET input == SummaryInput(job.transcript, job.chunks, job.partial)
    IN
    /\ pc = "summary"
    /\ IF outcome.raises
       THEN /\ job' = [job EXCEPT !.requests = Append(@, "summary"), !.failed = "summary",
                                  !.asked = Append(@, [input |-> input, output |-> None])]
            /\ pc' = FailurePc("summary")
            /\ status' = "error"
       ELSE LET output == ChatText(outcome.value)
                sent == [input |-> input, output |-> Some(output)]
            IN  IF Len(job.chunks) # 1 /\ Len(job.partial) < Len(job.chunks)
                THEN /\ job' = [job EXCEPT !.requests = Append(@, "summary"),
                                           !.asked = Append(@, sent),
                                           !.partial = Append(@, output)]
                     /\ UNCHANGED <<pc, status>>
                ELSE /\ job' = [job EXCEPT !.requests = Append(@, "summary"),
                                           !.asked = Append(@, sent),
                                           !.summary = output]
                     /\ pc' = AfterStep("summary")
                     /\ UNCHANGED status
    /\ UNCHANGED <<rows, seq, assigned, callerVars, parseVars, current_meeting, engineVars, files>>

\* summarizer.extract_key_points(transcript)
StepKeyPoints(outcome) ==
    /\ pc = "key_points"
    /\ IF outcome.raises
       THEN /\ job' = [job EXCEPT !.requests = Append(@, "key_points"), !.failed = "key_points"]
            /\ pc' = FailurePc("key_points")
            /\ status' = "error"
       ELSE /\ job' = [job EXCEPT !.requests = Append(@, "key_points"),
                                  !.key_points = _parse_json_list(ChatText(outcome.value))]
            /\ pc' = AfterStep("key_points")
            /\ UNCHANGED status
    /\ UNCHANGED <<rows, seq, assigned, callerVars, parseVars, current_meeting, engineVars, files>>

\* summarizer.extract_action_items(transcript)
StepActionItems(outcome) ==
    /\ pc = "action_items"
    /\ IF outcome.raises
       THEN /\ job' = [job EXCEPT !.requests = Append(@, "action_items"), !.failed = "action_items"]
            /\ pc' = FailurePc("action_items")
            /\ status' = "error"
       ELSE /\ job' = [job EXCEPT !.requests = Append(@, "action_items"),
                                  !.action_items = _parse_json_list(ChatText(outcome.value))]
            /\ pc' = AfterStep("action_items")
            /\ UNCHANGED status
    /\ UNCHANGED <<rows, seq, assigned, callerVars, parseVars, current_meeting, engineVars, files>>

\* meeting = Meeting(...), which raises ValidationError unless both lists are
\* lists of str; db.save_meeting(meeting); current_meeting = meeting
StepSave(date) ==
    /\ pc = "save"
    /\ pc' = AfterStep("save")
    /\ IF IsListOfStr(job.key_points) /\ IsListOfStr(job.action_items)
       THEN LET m == Meeting(job.title, date, job.transcript, job.summary,
                             AsListOfStr(job.key_points), AsListOfStr(job.action_items),
                             job.audio_path)
                id == NextRowId(rows, seq)
            IN  /\ rows' = InsertRow(rows, id, RowOf(m))
                /\ seq' = id
                /\ assigned' = assigned \cup {id}
                /\ current_meeting' = Some([m EXCEPT !.id = Some(LastRowIdOr0(id))])
                /\ status' = "complete"
       ELSE /\ status' = "error"
            /\ UNCHANGED <<rows, seq, assigned, current_meeting>>
    /\ UNCHANGED <<callerVars, parseVars, job, engineVars, files>>

\* the outcomes of a call: it raises, or returns one of values
Outcomes(values) == {Raised} \cup {Gave(v) : v \in values}

\* the user processes audio files one after another, the probe reporting one of
\* durations (tenths of a second), the engine hearing one of raws, the chat
\* endpoint answering the title, summary and list requests with one of
\* titles, summaries and lists
AppNext(paths, durations, raws, titles, summaries, lists, dates, maxId) ==
    \/ \E path \in paths : StartProcessAudio(path, maxId)
    \/ \E outcome \in Outcomes(durations) : StepProbe(outcome)
    \/ \E outcome \in Outcomes(raws) : StepTranscribe(outcome)
    \/ \E outcome \in Outcomes(titles) : StepTitle(outcome)
    \/ \E outcome \in Outcomes(summaries) : StepSummary(outcome)
    \/ \E outcome \in Outcomes(lists) : StepKeyPoints(outcome)
    \/ \E outcome \in Outcomes(lists) : StepActionItems(outcome)
    \/ \E date \in dates : StepSave(date)

\* nothing is running and nothing has been processed
AppInit ==
    /\ pc = "idle"
    /\ job = NewJob(<<>>, NoRows)
    /\ status = "none"
    /\ current_meeting = None
    /\ files = {}

\* a rerun of the script while the uploader holds a file: the upload tab
\* writes it to uploads/<name> again
UploadFile(path) ==
    /\ pc = "idle"
    /\ files' = files \cup {path}
    /\ UNCHANGED <<rows, seq, assigned, callerVars, parseVars, pc, job, status, current_meeting,
                   engineVars>>

\* the sidebar button with a meeting's title: it becomes the meeting shown
SelectFromSidebar(id) ==
    /\ pc = "idle"
    /\ id \in DOMAIN rows
    /\ RowDecodes(rows[id])
    /\ current_meeting' = Some(_row_to_meeting(id, rows[id]))
    /\ UNCHANGED <<rows, seq, assigned, callerVars, parseVars, pc, job, status, files, engineVars>>

\* the sidebar's delete button of a listed meeting: db.delete_meeting(meeting.id),
\* the returned audio_path unlinked if it is non-empty and the file exists, and
\* the meeting shown cleared if it is the one deleted
DeleteFromSidebar(id) ==
    /\ pc = "idle"
    /\ id \in DOMAIN rows
    /\ LET audio_path == rows[id].audio_path
       IN  files' = IF audio_path # <<>> /\ audio_path \in files
                    THEN files \ {audio_path}
                    ELSE files
    /\ rows' = DeleteRow(rows, id)
    /\ current_meeting' = IF \E shown \in current_meeting : shown.id = Some(id)
                          THEN None
                          ELSE current_meeting
    /\ UNCHANGED <<seq, assigned, callerVars, parseVars, pc, job, status, engineVars>>

\* Transcriber.__init__: self._model = None
EngineInit ==
    /\ _model = None
    /\ loads = 0

\* Transcriber.transcribe_file(audio_path), called outside _process_audio
TranscribeFile(outcome) ==
    /\ pc = "idle"
    /\ EngineCall(outcome.raises)
    /\ last' = IF outcome.raises
               THEN Call("transcribe_file", "", 0, <<>>, None, rows, TRUE)
               ELSE Call("transcribe_file", "", 0, <<>>, Some(TranscribedText(outcome.value)), rows, FALSE)
    /\ UNCHANGED <<rows, seq, assigned, meeting, wrote, parseVars, appVars>>

\* Transcriber.transcribe_array(audio_array): sf.write to a temporary file,
\* then transcribe_file on it
TranscribeArray(outcome) ==
    /\ pc = "idle"
    /\ EngineCall(outcome.raises)
    /\ last' = IF outcome.raises
               THEN Call("transcribe_array", "", 0, <<>>, None, rows, TRUE)
               ELSE Call("transcribe_array", "", 0, <<>>, Some(TranscribedText(outcome.value)), rows, FALSE)
    /\ UNCHANGED <<rows, seq, assigned, meeting, wrote, parseVars, appVars>>

----------------------------------------------------------------------------
(* The store under a caller: bounds and inputs                             *)

MaxId == 2           \* rows ever inserted, Spec
MaxOrderId == 3      \* rows ever inserted, OrderSpec
MaxListId == 2       \* rows ever inserted, ListSpec
MaxSearchId == 2     \* rows ever inserted, SearchSpec

Date1 == <<"1">>
Date10 == <<"1", "0">>
Date2 == <<"2">>

\* Spec: title and audio_path vary freely, the other fields together
Bodies ==
    {[transcript |-> <<>>, summary |-> <<>>, key_points |-> <<>>, action_items |-> <<>>],
     [transcript |-> <<"a", SP, "c">>, summary |-> <<"c">>,
      key_points |-> << <<"a">>, <<"c", QUOTE>> >>, action_items |-> << <<"c">> >>]}

CoreMeetings ==
    {Meeting(title, Date1, c.transcript, c.summary, c.key_points, c.action_items, path) :
        title \in {<<"a">>, <<"c">>}, c \in Bodies, path \in {<<>>, <<"p">>}}

\* OrderSpec: the date varies
DatedMeetings ==
    {Meeting(<<"a">>, date, <<>>, <<>>, <<>>, <<>>, <<>>) : date \in {Date1, Date10, Date2}}

\* ListSpec: the two lists vary: order, duplicates, symbols json.dumps escapes
Lists ==
    {<<>>, << <<"a">>, <<"c">> >>, << <<"c">>, <<"a">> >>,
     << <<QUOTE, ",">>, <<"a">>, <<"a">>, <<BACKSLASH, NL>> >>}

ListMeetings ==
    {Meeting(<<"a">>, Date1, <<"a">>, <<>>, k, a, <<>>) :
        k \in Lists, a \in {<<>>, << <<"a">>, <<"c">> >>}}

\* SearchSpec: the searched columns vary, and the query
SearchMeetingsInputs ==
    {Meeting(title, Date1, transcript, summary, <<>>, <<>>, <<>>) :
        title \in {<<"a">>, <<"A", "c">>},
        transcript \in {<<>>, <<"c", "a">>},
        summary \in {<<>>, <<"%">>}}

Queries == {<<>>, <<"a">>, <<"A">>, <<"c", "a">>, <<"a", "c">>, <<"%">>, <<"_">>}

\* ParseSpec: the replies of the chat endpoint, up to MaxReplyLen symbols
MaxReplyLen == 5
ReplySymbols == {"[", "]", ",", QUOTE, "a", "1", NL, FENCE, "json"}
Replies == UNION {[1..n -> ReplySymbols] : n \in 0..MaxReplyLen}

\* AppSpec: what the probe, the engine and the chat endpoint may answer
MaxAppId == 2        \* meetings ever saved, AppSpec
Durations == {5, 10}
OneWord == <<SP, "w", NL>>
LongTranscript == [i \in 1..(2 * DEFAULT_MAX_WORDS + 1) |-> IF i % 2 = 1 THEN "w" ELSE SP]
RawTexts == {<<>>, <<SP, NL>>, OneWord, LongTranscript}
TitleReplies == {None, Some(<<"t", NL>>)}
SummaryReplies == {Some(<<SP, "s">>)}
ListReplies == {Some(<<"[", QUOTE, "a", QUOTE, "]">>), Some(<<"-", SP, "a">>), Some(<<"1">>)}

Init ==
    /\ StoreInit
    /\ AppInit
    /\ EngineInit
    /\ reply = None
    /\ parsed = None

Next == StoreNext(CoreMeetings, {<<"a">>, <<"c", QUOTE>>}, MaxId)
Spec == Init /\ [][Next]_vars

OrderNext == StoreNext(DatedMeetings, {<<"a">>}, MaxOrderId)
OrderSpec == Init /\ [][OrderNext]_vars

ListNext == StoreNext(ListMeetings, {<<"a">>, <<"c">>}, MaxListId)
ListSpec == Init /\ [][ListNext]_vars

SearchNext == StoreNext(SearchMeetingsInputs, Queries, MaxSearchId)
SearchSpec == Init /\ [][SearchNext]_vars

ParseInit ==
    /\ StoreInit
    /\ AppInit
    /\ EngineInit
    /\ reply \in {None} \cup {Some(r) : r \in Replies}
    /\ parsed = None

ParseSpec == ParseInit /\ [][ParseNext]_vars

\* ChunkSpec: transcripts whose word counts lie on both sides of one and of two
\* chunks, and two summaries the endpoint may give
MaxChunkId == 1      \* meetings ever saved, ChunkSpec
WordAt(i) == <<"w", "x", "y">>[(i % 3) + 1]
Talk(n) == [k \in 1..(2 * n - 1) |-> IF k % 2 = 1 THEN WordAt((k + 1) \div 2) ELSE SP]
ChunkTexts ==
    {Talk(1), Talk(DEFAULT_MAX_WORDS - 1), Talk(DEFAULT_MAX_WORDS), Talk(DEFAULT_MAX_WORDS + 1),
     Talk(2 * DEFAULT_MAX_WORDS + 1)}
ChunkNext ==
    AppNext({<<"p">>}, {MIN_DURATION_TENTHS}, ChunkTexts, {Some(<<"t">>)},
            {Some(<<"s">>), Some(<<"r", SP>>)}, {Some(<<"[", "]">>)}, {Date1}, MaxChunkId)
ChunkSpec == Init /\ [][ChunkNext]_vars

\* SplitSpec: every text of up to MaxTextLen symbols, chunked by 1, 2 and 800
\* words, and long texts chunked by 800
MaxTextLen == 4
TextSymbols == {"w", "x", SP, NL, TAB}
ShortTexts == UNION {[1..n -> TextSymbols] : n \in 0..MaxTextLen}
Ramble(n) == [k \in 1..(5 * n) |-> <<"w", "x", SP, "y", NL>>[((k - 1) % 5) + 1]]
LongTexts == ChunkTexts \cup {Ramble((DEFAULT_MAX_WORDS \div 2) + 1)}
SplitNext ==
    \/ \E text \in ShortTexts : \E max_words \in {1, 2, DEFAULT_MAX_WORDS} :
          ChunkTranscript(text, max_words)
    \/ \E text \in LongTexts : ChunkTranscript(text, DEFAULT_MAX_WORDS)
SplitSpec == Init /\ [][SplitNext]_vars

\* IdSpec: one store written by a caller holding a record and by _process_audio
MaxIdsId == 2        \* meetings ever saved, IdSpec
IdMeetings == {m \in CoreMeetings : m.audio_path = <<>> /\ m.title = <<"a">>}
IdNext ==
    \/ \E m \in IdMeetings : SaveNewMeeting(m, MaxIdsId)
    \/ \E m \in IdMeetings : SaveHeldMeeting(m)
    \/ \E id \in 1..(MaxIdsId + 1) : DeleteMeeting(id)
    \/ StartProcessAudio(<<"p">>, MaxIdsId)
    \/ StepProbe(Gave(MIN_DURATION_TENTHS))
    \/ StepTranscribe(Gave(OneWord))
    \/ StepTitle(Gave(Some(<<"t">>)))
    \/ StepSummary(Gave(Some(<<"s">>)))
    \/ StepKeyPoints(Gave(Some(<<"[", "]">>)))
    \/ StepActionItems(Gave(Some(<<"[", "]">>)))
    \/ StepSave(Date1)
IdSpec == Init /\ [][IdNext]_vars

\* SidebarSpec: files of two names recorded or uploaded, processed, and
\* meetings selected and deleted from the sidebar
MaxSidebarId == 2    \* meetings ever saved, SidebarSpec
AudioPaths == {<<"p">>, <<"q">>}
SidebarNext ==
    \/ AppNext(AudioPaths, {MIN_DURATION_TENTHS}, {OneWord}, {Some(<<"t">>)}, SummaryReplies,
               {Some(<<"[", "]">>)}, {Date1}, MaxSidebarId)
    \/ \E path \in AudioPaths : UploadFile(path)
    \/ \E id \in 1..MaxSidebarId : SelectFromSidebar(id)
    \/ \E id \in 1..MaxSidebarId : DeleteFromSidebar(id)
SidebarSpec == Init /\ [][SidebarNext]_vars

\* EngineSpec: the one Transcriber, called by _process_audio and directly
MaxEngineId == 1     \* meetings ever saved, EngineSpec
EngineNext ==
    \/ AppNext({<<"p">>}, Durations, RawTexts, {Some(<<"t">>)}, SummaryReplies,
               {Some(<<"[", "]">>)}, {Date1}, MaxEngineId)
    \/ \E outcome \in Outcomes({<<>>, OneWord}) : TranscribeFile(outcome)
    \/ \E outcome \in Outcomes({<<>>, OneWord}) : TranscribeArray(outcome)
EngineSpec == Init /\ [][EngineNext]_vars

ProcessNext ==
    AppNext({<<"p">>}, Durations, RawTexts, TitleReplies, SummaryReplies, ListReplies,
            {Date1}, MaxAppId)
AppSpec == Init /\ [][ProcessNext]_vars

----------------------------------------------------------------------------
(* Claims about the record store                                           *)

\* the fields of a Meeting other than its id
SameFields(a, b) ==
    /\ a.title = b.title
    /\ a.date = b.date
    /\ a.transcript = b.transcript
    /\ a.summary = b.summary
    /\ a.key_points = b.key_points
    /\ a.action_items = b.action_items
    /\ a.audio_path = b.audio_path

\* what a read call returned, as a set of Meetings
Returned ==
    IF last.op = "get" THEN last.ret
    ELSE IF last.op \in {"get_all", "search"} THEN {last.ret[k] : k \in 1..Len(last.ret)}
    ELSE {}

\* C1: save_meeting of a record whose id is None inserts one new row, sets the
\* caller's record.id to the identifier the store assigned and returns it; while
\* only reads follow, get_meeting(id) returns a record with that id whose seven
\* fields equal the saved ones.
C1_InsertAssignsIdAndRoundTrips ==
    /\ (last.op = "save" /\ last.path = "insert") =>
        \E m \in meeting : \E id \in m.id :
            /\ last.ret = m.id
            /\ id \notin DOMAIN last.before
            /\ DOMAIN rows = DOMAIN last.before \cup {id}
            /\ \A j \in DOMAIN last.before : rows[j] = last.before[j]
    /\ (last.op = "get" /\ wrote.kind = "insert" /\ last.id = wrote.id) =>
        /\ ~last.raised
        /\ \E m \in meeting : \E r \in last.ret :
            /\ r.id = Some(wrote.id)
            /\ r.id = m.id
            /\ SameFields(r, m)

C1_Witness ==
    /\ last.op = "get"
    /\ wrote.kind = "insert"
    /\ last.id = wrote.id
    /\ Cardinality(DOMAIN rows) = 2
    /\ \E r \in last.ret : r.key_points # <<>> /\ r.audio_path # <<>>

\* C2 (as stated): save_meeting of a record that carries an identifier, in any
\* state reached by saves, gets and deletes, does not add a row, and afterwards
\* get_meeting(identifier) returns a record equal in every field to the one saved.
C2_UpdateIsReadBack ==
    /\ (last.op = "save" /\ last.path = "update") =>
        Cardinality(DOMAIN rows) <= Cardinality(DOMAIN last.before)
    /\ (last.op = "get" /\ wrote.kind = "update" /\ last.id = wrote.id) =>
        \E m \in meeting : \E r \in last.ret : r.id = m.id /\ SameFields(r, m)

\* C3: delete_meeting(id) of a present id removes exactly that row and returns
\* the audio_path stored for it (the empty string as such, not None), and
\* get_meeting(id) then returns None; of an absent id it returns None and
\* leaves every row as it was.
C3_DeleteRemovesOneRow ==
    /\ (last.op = "delete" /\ last.id \in DOMAIN last.before) =>
        /\ DOMAIN rows = DOMAIN last.before \ {last.id}
        /\ \A j \in DOMAIN rows : rows[j] = last.before[j]
        /\ last.ret = Some(last.before[last.id].audio_path)
        /\ last.ret # None
    /\ (last.op = "delete" /\ last.id \notin DOMAIN last.before) =>
        /\ last.ret = None
        /\ rows = last.before
    /\ (last.op = "get" /\ wrote.kind = "delete" /\ last.id = wrote.id) =>
        /\ last.ret = None
        /\ ~last.raised

C3_Witness ==
    /\ last.op = "delete"
    /\ last.id \in DOMAIN last.before
    /\ last.ret = Some(<<>>)
    /\ rows # NoRows

\* C7: get_all_meetings returns exactly the records in the store, and no
\* element of the result has a date less, as text, than the element after it.
C7_GetAllNewestFirst ==
    (last.op = "get_all") =>
        /\ ~last.raised
        /\ Len(last.ret) = Cardinality(DOMAIN rows)
        /\ \A i \in DOMAIN rows : \E k \in 1..Len(last.ret) :
            last.ret[k] = _row_to_meeting(i, rows[i])
        /\ \A k \in 1..(Len(last.ret) - 1) :
            ~TextLess(last.ret[k].date, last.ret[k + 1].date)

\* three rows with distinct dates, not inserted newest first
C7_Witness ==
    /\ last.op = "get_all"
    /\ Len(last.ret) = 3
    /\ last.ret[1].date # last.ret[2].date
    /\ last.ret[2].date # last.ret[3].date
    /\ last.ret[1].id = Some(2)
    /\ last.ret[2].id = Some(3)

\* s contains q as a substring
Contains(s, q) ==
    \E k \in 0..(Len(s) - Len(q)) : SubSeq(s, k + 1, k + Len(q)) = q

FoldAll(s) == [i \in 1..Len(s) |-> Fold(s[i])]

\* C8 (as stated): search_meetings(q) returns every record whose title,
\* transcript or summary contains q, and no record none of whose three fields
\* contains q even when case is ignored.
C8_SearchIsSubstringMatch ==
    (last.op = "search") =>
        LET ids == UNION {r.id : r \in Returned}
        IN  /\ \A i \in DOMAIN rows :
                (\/ Contains(rows[i].title, last.q)
                 \/ Contains(rows[i].transcript, last.q)
                 \/ Contains(rows[i].summary, last.q)) => i \in ids
            /\ \A i \in ids :
                \/ Contains(FoldAll(rows[i].title), FoldAll(last.q))
                \/ Contains(FoldAll(rows[i].transcript), FoldAll(last.q))
                \/ Contains(FoldAll(rows[i].summary), FoldAll(last.q))

\* C9: a record saved with key_points = L and action_items = L2 and reloaded
\* by get_meeting, get_all_meetings or search_meetings has exactly L and L2:
\* the same strings in the same order, duplicates kept, [] as [].
C9_ListsRoundTrip ==
    (last.op \in {"get", "get_all", "search"} /\ wrote.kind \in {"insert", "update"}) =>
        /\ ~last.raised
        /\ \A m \in meeting : \A r \in Returned :
            r.id = m.id =>
                /\ r.key_points = m.key_points
                /\ r.action_items = m.action_items

C9_Witness ==
    /\ last.op = "search"
    /\ wrote.kind = "update"
    /\ \E m \in meeting : \E r \in Returned :
        /\ r.id = m.id
        /\ Len(r.key_points) = 4
        /\ r.key_points[2] = r.key_points[3]
        /\ r.action_items = << <<"a">>, <<"c">> >>

----------------------------------------------------------------------------
(* Claims about _process_audio (AppSpec)                                   *)

\* the calls of a run that went through the whole pipeline, in order
IsCompleteRun(requests, chunks) ==
    LET summaries == IF Len(chunks) = 1 THEN 1 ELSE Len(chunks) + 1
    IN  requests = <<"transcribe", "title">> \o [i \in 1..summaries |-> "summary"]
                   \o <<"key_points", "action_items">>

\* C4: nothing is written to the store unless transcription and every request
\* of process_meeting returned: while or after a run that wrote, every call of
\* the pipeline was made once, in order, and none raised; and when
\* transcribe_file or a chat-completion request raised, that call is the last
\* one made and was not made before (but for the summary requests of earlier
\* chunks), the run has ended with the error, and the rows of the store are
\* the rows from before the run.
C4_NoWriteUnlessPipelineCompleted ==
    /\ rows # job.before =>
          /\ job.failed = ""
          /\ job.heard.done /\ ~job.heard.raises
          /\ IsCompleteRun(job.requests, job.chunks)
    /\ job.failed # "" =>
          /\ rows = job.before
          /\ pc = "idle"
          /\ status = "error"
          /\ job.requests[Len(job.requests)] = job.failed
          /\ Cardinality({i \in 1..(Len(job.requests) - 1) : job.requests[i] = job.failed})
                = IF job.failed = "summary" THEN Len(job.partial) ELSE 0

\* a second run fails on a summary request after one partial summary was made
C4_Witness ==
    /\ job.failed = "summary"
    /\ Len(job.partial) = 1
    /\ job.before # NoRows
    /\ rows = job.before

\* C5: when the probe reported less than 1 second (10 tenths), the run has
\* ended reporting "too short", having made no call to the engine or the chat
\* endpoint and written no row; when the probe raised, the run did not stop
\* there: transcription is the next call, or was the first call made.
C5_TooShortStopsBeforePipeline ==
    /\ (job.probe.done /\ ~job.probe.raises /\ job.probe.value < 10) =>
          /\ status = "too_short"
          /\ pc = "idle"
          /\ job.requests = <<>>
          /\ rows = job.before
    /\ (job.probe.done /\ job.probe.raises) =>
          /\ status # "too_short"
          /\ \/ pc = "transcribe" /\ job.requests = <<>>
             \/ Len(job.requests) >= 1 /\ job.requests[1] = "transcribe"

\* a file of half a second is processed after a meeting was saved
C5_Witness ==
    /\ job.probe = Gave(5)
    /\ status = "too_short"
    /\ job.before # NoRows

\* C6: when transcribe_file returned a text that is empty or only whitespace,
\* the run has ended reporting "no speech", the transcription is the only call
\* it made (no chat-completion request) and the rows are those from before.
C6_NoSpeechStopsBeforeSummarizer ==
    (job.heard.done /\ ~job.heard.raises /\ Strip(job.transcript) = <<>>) =>
        /\ status = "no_speech"
        /\ pc = "idle"
        /\ job.requests = <<"transcribe">>
        /\ rows = job.before

\* the engine hears only whitespace in a file processed after a meeting was saved
C6_Witness ==
    /\ job.heard = Gave(<<SP, NL>>)
    /\ status = "no_speech"
    /\ job.before # NoRows

----------------------------------------------------------------------------
(* Claims about the summarizer's response parsing (ParseSpec)              *)

\* C10: for every response text, extract_key_points and extract_action_items
\* return a sequence of strings, and when the response is a well-formed JSON
\* array of strings they return exactly that array.
C10_ExtractReturnsListOfStr ==
    \A p \in parsed :
        /\ IsListOfStr(p.val)
        /\ LET decoded == json_loads(ChatText(reply))
           IN  (decoded.ok /\ IsListOfStr(decoded.val)) => p.val = decoded.val

----------------------------------------------------------------------------
(* Claims about generate_summary (ChunkSpec)                               *)

\* generate_summary has returned: extract_key_points is next or was called
PastSummary == pc = "key_points" \/ \E i \in 1..Len(job.requests) : job.requests[i] = "key_points"

\* C11: once generate_summary has returned, a transcript of under 800 words
\* made it send exactly one request, the transcript itself; a transcript of
\* over 1600 words made it send one request per run of 800 words, in the order
\* of the transcript (at least 2, each returning a partial summary), then
\* exactly one request over the partial summaries joined with blank lines, and
\* the summary is what that last request returned.
C11_SummaryRequests ==
    LET words == Split(job.transcript)
        n == Len(words)
        asked == job.asked
        k == Len(asked) - 1
    IN  PastSummary =>
          /\ Len(asked) = Cardinality({i \in 1..Len(job.requests) : job.requests[i] = "summary"})
          /\ n < 800 => Len(asked) = 1 /\ asked[1].input = job.transcript
          /\ n > 1600 =>
                /\ k >= 2
                /\ 800 * (k - 1) < n /\ n <= 800 * k
                /\ \A i \in 1..k :
                      /\ asked[i].input = Join(<<SP>>, SubSeq(words, 800 * (i - 1) + 1, Min({800 * i, n})))
                      /\ asked[i].output # None
                /\ asked[k + 1].input = Join(<<NL, NL>>, [i \in 1..k |-> CHOOSE o \in asked[i].output : TRUE])
                /\ asked[k + 1].output = Some(job.summary)

\* a transcript of 1601 words was summarized from partial summaries that differ
\* from each other and from the final one
C11_Witness ==
    /\ PastSummary
    /\ Len(Split(job.transcript)) > 1600
    /\ Len(job.asked) = 4
    /\ job.asked[1].output # job.asked[2].output
    /\ job.asked[3].output # job.asked[4].output

----------------------------------------------------------------------------
(* Claims about identifiers (Spec)                                         *)

\* C12: a record that went through save_meeting has an identifier, which is
\* what save_meeting returned; no call changes the identifier of the record the
\* caller holds (only the insert of another, new record puts a record with
\* another identifier in its place); and the update path returns the
\* identifier the record had, leaves the set of row ids as it was and touches
\* no row of another id.
C12_IdentifierNeverChanges ==
    [][ /\ \A new \in meeting' : new.id # None
        /\ last'.op = "save" => \A new \in meeting' : last'.ret = new.id
        /\ last'.path # "insert" => \A held \in meeting : \A new \in meeting' : new.id = held.id
        /\ last'.path = "update" =>
              /\ \A held \in meeting : last'.ret = held.id /\ held.id = Some(last'.id)
              /\ DOMAIN rows' = DOMAIN rows
              /\ \A i \in DOMAIN rows \ {last'.id} : rows'[i] = rows[i]
      ]_vars

\* the second of two records was saved again with other fields
C12_Witness ==
    /\ last.path = "update"
    /\ last.id = 2
    /\ DOMAIN rows = {1, 2}
    /\ rows[2] # last.before[2]
    /\ \A held \in meeting : held.id = Some(2)

----------------------------------------------------------------------------
(* Claims about the Transcriber (EngineSpec)                               *)

\* C13: the model is not loaded at construction; over every sequence of
\* transcribe_file and transcribe_array calls (direct ones and the one in
\* _process_audio) at most one model is ever loaded; a call that returned has
\* left the model loaded; and once a model is loaded no later call loads
\* another or changes the cached handle.
C13_ModelLoadedAtMostOnce ==
    /\ (_model = None /\ loads = 0)
    /\ [](/\ loads <= 1
          /\ _model = None <=> loads = 0
          /\ (last.op \in {"transcribe_file", "transcribe_array"} /\ ~last.raised) => _model # None
          /\ (job.heard.done /\ ~job.heard.raises) => _model # None)
    /\ [][_model # None => (_model' = _model /\ loads' = loads)]_vars

\* after the model was loaded by an earlier call, _process_audio has transcribed
\* a file and transcribe_array has then been called and returned
C13_Witness ==
    /\ last.op = "transcribe_array" /\ ~last.raised
    /\ last.before # NoRows
    /\ job.heard.done /\ ~job.heard.raises
    /\ loads = 1

----------------------------------------------------------------------------
(* Claims about _chunk_transcript (SplitSpec)                              *)

\* where the words of text begin and end: a symbol that is not whitespace,
\* with whitespace or nothing before it (after it)
WordStarts(text) ==
    {i \in 1..Len(text) : text[i] \notin PyWhitespace /\ (i = 1 \/ text[i - 1] \in PyWhitespace)}
WordEnds(text) ==
    {i \in 1..Len(text) : text[i] \notin PyWhitespace /\ (i = Len(text) \/ text[i + 1] \in PyWhitespace)}

\* C14: for the chunks _chunk_transcript(text, max_words) returned (max_words
\* is 800 unless the caller says otherwise): every chunk holds at most
\* max_words words, every chunk but the last exactly max_words, and the words
\* of the chunks, taken in order, are the maximal runs of non-whitespace of
\* text, in order, each once: the r-th run is the r-th word.
C14_ChunksKeepWords ==
    last.op = "_chunk_transcript" =>
        LET text == last.q
            m == last.id
            chunks == CHOOSE c \in last.ret : TRUE
            inChunk == [k \in 1..Len(chunks) |-> Split(chunks[k])]
            starts == WordStarts(text)
            ends == WordEnds(text)
            n == Cardinality(starts)
        IN  /\ \A k \in 1..Len(chunks) : Len(inChunk[k]) <= m /\ Len(inChunk[k]) >= 1
            /\ \A k \in 1..(Len(chunks) - 1) : Len(inChunk[k]) = m
            /\ n = (IF Len(chunks) = 0 THEN 0
                    ELSE m * (Len(chunks) - 1) + Len(inChunk[Len(chunks)]))
            /\ \A i \in starts :
                  LET r == Cardinality({j \in starts : j <= i})
                      e == Min({j \in ends : j >= i})
                  IN  inChunk[((r - 1) \div m) + 1][((r - 1) % m) + 1] = SubSeq(text, i, e)

\* a text of words of two letters and of one, parted by spaces and newlines,
\* was cut by 800 words into a full chunk and a chunk of two words
C14_Witness ==
    /\ last.op = "_chunk_transcript"
    /\ last.id = 800
    /\ \E c \in last.ret :
          /\ Len(c) = 2
          /\ Len(Split(c[2])) = 2
          /\ SubSeq(c[1], 1, 4) = <<"w", "x", SP, "y">>

----------------------------------------------------------------------------
(* Claims about identifier allocation (IdSpec)                             *)

\* C15: every id of a row and every id an in-memory record carries is one an
\* INSERT was given; a step adds at most one row, and the id of a row it adds
\* was given to no INSERT before, rows since deleted included; and while the
\* caller holds a record whose row is gone, no step brings a row with its id.
C15_IdentifiersNeverReused ==
    /\ [](/\ DOMAIN rows \subseteq assigned
          /\ \A held \in meeting : held.id \subseteq assigned
          /\ \A shown \in current_meeting : shown.id \subseteq assigned)
    /\ [][ /\ Cardinality(DOMAIN rows' \ DOMAIN rows) <= 1
           /\ \A i \in DOMAIN rows' \ DOMAIN rows : i \notin assigned /\ assigned' = assigned \cup {i}
           /\ assigned \subseteq assigned'
           /\ meeting' = meeting =>
                 \A held \in meeting : \A i \in held.id : i \notin DOMAIN rows => i \notin DOMAIN rows'
         ]_vars

\* the caller still holds the record of id 1, whose row was deleted, and
\* _process_audio has since saved a meeting, which got id 2
C15_Witness ==
    /\ \E held \in meeting : held.id = Some(1)
    /\ DOMAIN rows = {2}
    /\ \E shown \in current_meeting : shown.id = Some(2)
    /\ assigned = {1, 2}

----------------------------------------------------------------------------
(* Claims about the audio files (SidebarSpec)                              *)

\* C16: every meeting in the store that was saved with the path of an audio
\* file (every meeting _process_audio saves is: the file is written before
\* _process_audio is entered) still has that file on disk, whatever was
\* recorded, uploaded, processed and deleted from the sidebar since.
C16_RemainingAudioKept ==
    \A i \in DOMAIN rows : rows[i].audio_path # <<>> => rows[i].audio_path \in files

====
